---- MODULE Spec2Model ----
(***************************************************************************)
(* FullBodyTracker (js/fullbody_working.js): the initialization sequence,  *)
(* the frame-rate limited tracking loop, the three detector completion     *)
(* callbacks and the status display they write.                            *)
(*                                                                         *)
(* Abstractions.  A landmark collection is modelled by the number of       *)
(* subjects it holds (0 = null / undefined / empty array).  The DOM status *)
(* widgets are the function `status`.  The canvas is the sequence of       *)
(* layers drawn since it was last cleared.  Date.now() is the integer      *)
(* variable `now` (milliseconds).  Console logging is left out.            *)
(***************************************************************************)
EXTENDS Integers, Sequences, FiniteSets, TLC

(* ------------------------------ bounds --------------------------------- *)
\* Last clock reading explored.
MaxNow == 130
\* Number of ticks recorded by the scheduler harness (SchedSpec).
MaxLog == 4
\* Significant bits of a number in FlipSpec (a JavaScript number has 53).
MantissaBits == 4
\* Binary fraction digits of the smallest quantum in FlipSpec.
FracBits == 4
\* Largest canvas width, in pixels, in FlipSpec.
MaxWidth == 16

\* Amounts by which the clock moves between two observations.
ClockSteps == {10, 20}
\* Clock readings at construction: a simulated clock starting at 0, and a
\* clock that is already past one frame interval (as a wall clock is).
StartTimes == {0, 50}

(* ------------------------- program constants --------------------------- *)
targetFps   == 30
maxRetries  == 3
maxNumFaces == 1
maxNumHands == 2
\* The visibility threshold 0.3, in tenths.
visibilityThreshold == 3
\* The highest landmark index a pose connection names.
maxPoseIndex == 32

Modules     == {"pose", "face", "hands"}
\* Variant of ModuleOrder: the face dispatch is placed before the pose
\* dispatch.
ModuleOrderFaceFirst == <<"face", "pose", "hands">>

\* Order of the dispatches in processFrame (and of the setups).
ModuleOrder == <<"pose", "face", "hands">>
StatusTypes == Modules \cup {"camera"}

\* Largest number of subjects a detector reports.
MaxSubjects(m) == IF m = "hands" THEN maxNumHands
                  ELSE IF m = "face" THEN maxNumFaces ELSE 1

VARIABLES
    initPc,           \* position of init()
    setup,            \* per module: outcome of its setup function
    errorModal,       \* message shown by showErrorModal ("none" if not shown)
    detector,         \* this.pose / this.faceMesh / this.hands is non-null
    show,             \* showPose / showFace / showHands
    landmarks,        \* poseLandmarks / faceLandmarks / handsLandmarks (count)
    status,           \* text of the <type>-status elements
    videoElement,     \* this.videoElement is non-null
    readyState,       \* videoElement.readyState
    canvas,           \* layers on the canvas since the last clear
    isTracking,
    now,              \* Date.now()
    lastFrameTime,
    frameCount,
    fps,
    lastFpsTime,
    tickPc,           \* "none", "scheduled" or the module whose send is awaited
    lastTick,         \* what the most recent run of processFrame did
    dispatchFailures, \* per module: consecutive rejected sends (saturating)
    tickLog,          \* SchedSpec: <<clock reading, accepted>> of each tick
    inflight,         \* per module: sends issued and not yet settled
    delaysElapsed,    \* number of setup delay timers that have expired
    outstanding,      \* runs of processFrame requested or begun, not yet ended
    input,            \* DrawSpec, FlipSpec: the arguments of the routine
    output            \* DrawSpec, FlipSpec: what the routine produced

vars == <<initPc, setup, errorModal, detector, show, landmarks, status,
          videoElement, readyState, canvas, isTracking, now, lastFrameTime,
          frameCount, fps, lastFpsTime, tickPc, lastTick, dispatchFailures,
          tickLog, inflight, delaysElapsed, outstanding, input, output>>

\* The fields the constructor sets, for a construction at clock reading t.
Fresh(t) ==
    /\ now = t
    /\ fps = 0
    /\ frameCount = 0
    /\ lastFpsTime = t
    /\ lastFrameTime = 0
    /\ isTracking = FALSE
    /\ landmarks = [m \in Modules |-> 0]
    /\ detector = [m \in Modules |-> FALSE]
    /\ show = [m \in Modules |-> TRUE]
    /\ videoElement = FALSE
    /\ readyState = 0
    /\ canvas = <<>>
    /\ status = [t2 \in StatusTypes |-> "none"]
    /\ errorModal = "none"
    /\ setup = [m \in Modules |-> "pending"]
    /\ dispatchFailures = [m \in Modules |-> 0]
    /\ tickPc = "none"
    /\ lastTick = "none"
    /\ tickLog = <<>>
    /\ inflight = [m \in Modules |-> 0]
    /\ delaysElapsed = 0
    /\ outstanding = 0

Constructed(t) ==
    /\ Fresh(t)
    /\ input = <<>>
    /\ output = <<>>

Init ==
    /\ \E t \in StartTimes : Constructed(t)
    /\ initPc = "start"

(* ------------------------------ helpers -------------------------------- *)
\* updateStatus(type, status)
updateStatus(st, type, s) == [st EXCEPT ![type] = s]

\* Variant of InitCatch: the error is logged and the status set, but no
\* error modal is shown.
InitCatchSilent(st, message) ==
    /\ initPc' = "failed"
    /\ status' = updateStatus(st, "camera", "error")
    /\ errorModal' = "none"

\* The catch block of init(): camera status 'error' and the error modal.
InitCatch(st, message) ==
    /\ initPc' = "failed"
    /\ status' = updateStatus(st, "camera", "error")
    /\ errorModal' = message

\* Variant of TrackingStatusOf: an empty result is reported as 'error'.
TrackingStatusOfError(count) == IF count > 0 THEN "detected" ELSE "error"

\* updateTrackingStatus(), for the landmark collections lm.
TrackingStatusOf(count) == IF count > 0 THEN "detected" ELSE "searching"

updateTrackingStatus(st, lm) ==
    [t \in StatusTypes |->
        IF t \in Modules THEN TrackingStatusOf(lm[t]) ELSE st[t]]

\* Variant of Throttled: the elapsed time is compared with the rate (30)
\* instead of the interval (1000 / 30).
ThrottledByRate(n, last) == n - last < targetFps

\* now - lastFrameTime < frameInterval, with frameInterval = 1000 / targetFps
Throttled(n, last) == targetFps * (n - last) < 1000

\* The guards of the three sends in processFrame.
Dispatchable(m) == detector[m] /\ show[m]

\* The first module at position >= i of the dispatch order whose send is
\* issued; "scheduled" (requestAnimationFrame) when there is none left.
RECURSIVE NextSend(_)
NextSend(i) ==
    IF i > Len(ModuleOrder) THEN "scheduled"
    ELSE IF Dispatchable(ModuleOrder[i]) THEN ModuleOrder[i]
    ELSE NextSend(i + 1)

Position(m) == CHOOSE i \in 1..Len(ModuleOrder) : ModuleOrder[i] = m

\* Variant of AwaitsSend: the sends are issued without await.
SendsNotAwaited == FALSE

\* Each send of processFrame is awaited: processFrame is suspended until
\* the promise of the send settles.
AwaitsSend == TRUE

\* The modules to which processFrame issues a send when it goes on from
\* position i of the dispatch order (up to its next suspension), and where
\* it stands afterwards.
Issued(i) ==
    IF AwaitsSend THEN {m \in Modules : NextSend(i) = m}
    ELSE {m \in Modules : Position(m) >= i /\ Dispatchable(m)}

PcAfter(i) == IF AwaitsSend THEN NextSend(i) ELSE "scheduled"

Issue(inf, i) ==
    [m \in Modules |-> IF m \in Issued(i) THEN inf[m] + 1 ELSE inf[m]]

\* Variant of StoppedTick: the next tick is requested before the flag is
\* looked at.
StoppedTickRescheduled == "scheduled"

\* processFrame finds isTracking cleared: it returns without requesting
\* another tick.
StoppedTick == "none"

\* Variant of Requests: requestAnimationFrame is called inside the try block
\* and again after the catch block.
RequestsInTryAndAfter(pc) == IF pc = "scheduled" THEN 2 ELSE 0

\* The number of requestAnimationFrame calls on the path of processFrame
\* that ends at pc: one on the throttle path and one at the end of the
\* body, none on the return at the flag check.
Requests(pc) == IF pc = "scheduled" THEN 1 ELSE 0

\* The runs of processFrame outstanding when one of n (the one executing
\* included) has gone on to pc: it is suspended in a send, or it has
\* returned and left its requests behind.
OutstandingAfter(n, pc) == IF pc \in Modules THEN n ELSE n - 1 + Requests(pc)

\* Variant of CatchFrameError: the error leaves processFrame, and no next
\* tick is requested.
UncaughtFrameError == "none"

\* The catch block of processFrame, then the requestAnimationFrame after it.
CatchFrameError == "scheduled"

Min(a, b) == IF a < b THEN a ELSE b

\* videoElement.readyState >= 2 (HAVE_CURRENT_DATA): decodable frames.
HAVE_CURRENT_DATA == 2

\* Variant of FrameReady: the readyState of the video is not looked at.
FrameReadyUnchecked == videoElement

\* The readiness check of processFrame.
FrameReady == videoElement /\ readyState >= HAVE_CURRENT_DATA

\* updateFPS(): the new <<fps, frameCount, lastFpsTime>>.
updateFPS(f, fc, lfp, n) ==
    IF n - lfp >= 1000
    THEN [fps |-> fc + 1, frameCount |-> 0, lastFpsTime |-> n]
    ELSE [fps |-> f, frameCount |-> fc + 1, lastFpsTime |-> lfp]

\* What the detector's payload leaves in the module's landmark field:
\* results.poseLandmarks, multiFaceLandmarks?.[0] || null (the first face
\* only), multiHandLandmarks || [] (every hand).
Cached(m, r) == IF m = "hands" THEN r ELSE IF r > 0 THEN 1 ELSE 0

\* Variant of drawLandmarks: the show flag is not looked at.
drawLandmarksUnguarded(cv, m, lm) == IF lm[m] > 0 THEN Append(cv, m) ELSE cv

\* draw<Module>Landmarks(): returns without drawing when the collection is
\* absent or the module's show flag is off.
drawLandmarks(cv, m, lm) ==
    IF lm[m] > 0 /\ show[m] THEN Append(cv, m) ELSE cv

\* The guard under which the results callback of m calls the draw routine:
\* showPose; showFace && faceLandmarks; showHands && handsLandmarks.length.
CallbackDraws(m, lm) == show[m] /\ (m = "pose" \/ lm[m] > 0)

\* Variant of AfterSetup: the next setup is entered past its delay.
AfterSetupNoDelay(m) ==
    IF m = "pose" THEN "setupFaceMesh"
    ELSE IF m = "face" THEN "setupHands" ELSE "startCamera"

\* Where init() stands when the setup of m has returned: in the delay at
\* the head of the next setup function, or at the camera start.
AfterSetup(m) ==
    IF m = "pose" THEN "faceDelay"
    ELSE IF m = "face" THEN "handsDelay" ELSE "startCamera"

(* ------------------------- initialization ------------------------------ *)
SetupOutcomes == {"ok", "ctorThrows", "optionsThrows"}

InitUnchanged ==
    UNCHANGED <<landmarks, canvas, isTracking, now, lastFrameTime, frameCount,
                fps, lastFpsTime, tickPc, lastTick, dispatchFailures, tickLog,
                inflight, input, output,
                outstanding>>

\* init(), up to the call of setupMediaPipeSequentially: the canvas lookup
\* and the creation of the video element.
GetCanvas(found) ==
    /\ initPc = "start"
    /\ IF found
       THEN /\ initPc' = "setupPose"
            /\ videoElement' = TRUE
            /\ UNCHANGED <<status, errorModal>>
       ELSE /\ InitCatch(status, "canvas")
            /\ UNCHANGED videoElement
    /\ UNCHANGED <<setup, detector, show, readyState, delaysElapsed>>
    /\ InitUnchanged

\* setupPose(): on failure the status is set and the error is rethrown, which
\* ends setupMediaPipeSequentially and init() in init's catch block.
SetupPose(outcome) ==
    /\ initPc = "setupPose"
    /\ detector' = [detector EXCEPT !["pose"] = (outcome # "ctorThrows")]
    /\ IF outcome = "ok"
       THEN /\ status' = updateStatus(status, "pose", "active")
            /\ setup' = [setup EXCEPT !["pose"] = "ok"]
            /\ initPc' = AfterSetup("pose")
            /\ UNCHANGED errorModal
       ELSE /\ setup' = [setup EXCEPT !["pose"] = "failed"]
            /\ InitCatch(updateStatus(status, "pose", "error"), "pose")
    /\ UNCHANGED <<show, videoElement, readyState, delaysElapsed>>
    /\ InitUnchanged

\* The 100 ms timer at the head of setupFaceMesh and of setupHands expires.
SettleDelay ==
    /\ initPc \in {"faceDelay", "handsDelay"}
    /\ initPc' = IF initPc = "faceDelay" THEN "setupFaceMesh" ELSE "setupHands"
    /\ delaysElapsed' = delaysElapsed + 1
    /\ UNCHANGED <<setup, errorModal, detector, show, status, videoElement,
                   readyState>>
    /\ InitUnchanged

\* The body of setupFaceMesh / setupHands after the delay: the catch block
\* drops the detector, clears the show flag and does not rethrow.
SetupOptional(m, outcome) ==
    /\ IF outcome = "ok"
       THEN /\ detector' = [detector EXCEPT ![m] = TRUE]
            /\ status' = updateStatus(status, m, "active")
            /\ setup' = [setup EXCEPT ![m] = "ok"]
            /\ UNCHANGED show
       ELSE /\ detector' = [detector EXCEPT ![m] = FALSE]
            /\ show' = [show EXCEPT ![m] = FALSE]
            /\ status' = updateStatus(status, m, "error")
            /\ setup' = [setup EXCEPT ![m] = "failed"]
    /\ UNCHANGED <<errorModal, videoElement, readyState, delaysElapsed>>
    /\ InitUnchanged

SetupFaceMesh(outcome) ==
    /\ initPc = "setupFaceMesh"
    /\ initPc' = AfterSetup("face")
    /\ SetupOptional("face", outcome)

SetupHands(outcome) ==
    /\ initPc = "setupHands"
    /\ initPc' = AfterSetup("hands")
    /\ SetupOptional("hands", outcome)

\* startCamera(): getUserMedia and the wait for loadedmetadata; rs is the
\* readyState the video has when the metadata event has been handled.
StartCamera(granted, rs) ==
    /\ initPc = "startCamera"
    /\ IF granted
       THEN /\ initPc' = "startTracking"
            /\ readyState' = rs
            /\ status' = updateStatus(status, "camera", "active")
            /\ UNCHANGED errorModal
       ELSE /\ InitCatch(updateStatus(status, "camera", "error"), "camera")
            /\ UNCHANGED readyState
    /\ UNCHANGED <<setup, detector, show, videoElement, delaysElapsed>>
    /\ InitUnchanged

(* --------------------------- tracking loop ----------------------------- *)
\* One run of processFrame from its top to its first await or its return.
\* `tracking` is the value of this.isTracking it reads.
ProcessFrame(tracking, renderThrows) ==
    /\ UNCHANGED <<setup, errorModal, detector, show, landmarks, status,
                   videoElement, readyState, now, dispatchFailures,
                   delaysElapsed, input, output>>
    /\ IF ~tracking
       THEN /\ tickPc' = StoppedTick
            /\ lastTick' = "stopped"
            /\ UNCHANGED <<lastFrameTime, frameCount, fps, lastFpsTime, canvas,
                           inflight>>
       ELSE IF Throttled(now, lastFrameTime)
       THEN /\ tickPc' = "scheduled"
            /\ lastTick' = "skipped"
            /\ UNCHANGED <<lastFrameTime, frameCount, fps, lastFpsTime, canvas,
                           inflight>>
       ELSE /\ lastFrameTime' = now
            /\ IF FrameReady
               THEN IF renderThrows
                    THEN \* renderFrame throws after clearing the canvas
                         /\ canvas' = <<>>
                         /\ tickPc' = CatchFrameError
                         /\ lastTick' = "renderError"
                         /\ UNCHANGED <<frameCount, fps, lastFpsTime, inflight>>
                    ELSE LET f == updateFPS(fps, frameCount, lastFpsTime, now)
                         IN /\ canvas' = <<"video">>
                            /\ fps' = f.fps
                            /\ frameCount' = f.frameCount
                            /\ lastFpsTime' = f.lastFpsTime
                            /\ tickPc' = PcAfter(1)
                            /\ inflight' = Issue(inflight, 1)
                            /\ lastTick' = "rendered"
               ELSE /\ tickPc' = "scheduled"
                    /\ lastTick' = "notReady"
                    /\ UNCHANGED <<frameCount, fps, lastFpsTime, canvas,
                                   inflight>>

\* startOptimizedTracking(): sets the flag and calls processFrame directly.
StartOptimizedTracking(renderThrows) ==
    /\ initPc = "startTracking"
    /\ initPc' = "running"
    /\ isTracking' = TRUE
    /\ ProcessFrame(TRUE, renderThrows)
    /\ outstanding' = OutstandingAfter(outstanding + 1, tickPc')
    /\ UNCHANGED tickLog

\* The repaint signal runs the scheduled processFrame.
Tick(renderThrows) ==
    /\ tickPc = "scheduled"
    /\ ProcessFrame(isTracking, renderThrows)
    /\ outstanding' = OutstandingAfter(outstanding, tickPc')
    /\ UNCHANGED <<initPc, isTracking, tickLog>>

SendUnchanged ==
    UNCHANGED <<initPc, setup, errorModal, detector, show, videoElement,
                readyState, isTracking, now, lastFrameTime, frameCount, fps,
                lastFpsTime, tickLog, delaysElapsed, input, output>>

\* The send of module m settles after the detector has called the results
\* callback; a processFrame that awaits it resumes with the next dispatch.
Resume(m) ==
    /\ inflight[m] > 0
    /\ IF tickPc = m
       THEN /\ tickPc' = PcAfter(Position(m) + 1)
            /\ inflight' = [Issue(inflight, Position(m) + 1)
                               EXCEPT ![m] = @ - 1]
       ELSE /\ inflight' = [inflight EXCEPT ![m] = @ - 1]
            /\ UNCHANGED tickPc
    /\ outstanding' = IF tickPc = m THEN OutstandingAfter(outstanding, tickPc')
                      ELSE outstanding
    /\ dispatchFailures' = [dispatchFailures EXCEPT ![m] = 0]
    /\ UNCHANGED lastTick
    /\ SendUnchanged

OnPoseResults(r) ==
    /\ landmarks' = [landmarks EXCEPT !["pose"] = Cached("pose", r)]
    /\ canvas' = IF CallbackDraws("pose", landmarks')
                 THEN drawLandmarks(canvas, "pose", landmarks')
                 ELSE canvas
    /\ status' = updateTrackingStatus(status, landmarks')
    /\ Resume("pose")

OnFaceResults(r) ==
    /\ landmarks' = [landmarks EXCEPT !["face"] = Cached("face", r)]
    /\ canvas' = IF CallbackDraws("face", landmarks')
                 THEN drawLandmarks(canvas, "face", landmarks')
                 ELSE canvas
    /\ UNCHANGED status
    /\ Resume("face")

OnHandsResults(r) ==
    /\ landmarks' = [landmarks EXCEPT !["hands"] = Cached("hands", r)]
    /\ canvas' = IF CallbackDraws("hands", landmarks')
                 THEN drawLandmarks(canvas, "hands", landmarks')
                 ELSE canvas
    /\ UNCHANGED status
    /\ Resume("hands")

\* The send of module m rejects: the catch block of the processFrame that
\* awaits it logs, and the next tick is requested.
SendThrows(m) ==
    /\ inflight[m] > 0
    /\ inflight' = [inflight EXCEPT ![m] = @ - 1]
    /\ IF tickPc = m
       THEN /\ tickPc' = CatchFrameError
            /\ lastTick' = "sendError"
            /\ outstanding' = OutstandingAfter(outstanding, tickPc')
       ELSE UNCHANGED <<tickPc, lastTick, outstanding>>
    /\ dispatchFailures' =
           [dispatchFailures EXCEPT ![m] = Min(@ + 1, maxRetries)]
    /\ UNCHANGED <<landmarks, canvas, status>>
    /\ SendUnchanged

(* ---------------------------- environment ------------------------------ *)
EnvUnchanged ==
    UNCHANGED <<initPc, setup, errorModal, detector, show, landmarks, status,
                videoElement, canvas, isTracking, lastFrameTime, frameCount,
                fps, lastFpsTime, tickPc, lastTick, dispatchFailures, tickLog,
                inflight, delaysElapsed, input, output,
                outstanding>>

ClockAdvance(d) ==
    /\ now + d <= MaxNow
    /\ now' = now + d
    /\ UNCHANGED readyState
    /\ EnvUnchanged

\* The camera stream delivers its first decodable frame.
VideoReady ==
    /\ initPc \in {"startTracking", "running"}
    /\ readyState < HAVE_CURRENT_DATA
    /\ readyState' = HAVE_CURRENT_DATA
    /\ UNCHANGED now
    /\ EnvUnchanged

Next ==
    \/ \E found \in BOOLEAN : GetCanvas(found)
    \/ \E o \in SetupOutcomes : SetupPose(o)
    \/ SettleDelay
    \/ \E o \in SetupOutcomes : SetupFaceMesh(o)
    \/ \E o \in SetupOutcomes : SetupHands(o)
    \/ \E g \in BOOLEAN, rs \in {1, HAVE_CURRENT_DATA} : StartCamera(g, rs)
    \/ \E rt \in BOOLEAN : StartOptimizedTracking(rt)
    \/ \E rt \in BOOLEAN : Tick(rt)
    \/ \E r \in 0..MaxSubjects("pose") : OnPoseResults(r)
    \/ \E r \in 0..MaxSubjects("face") : OnFaceResults(r)
    \/ \E r \in 0..MaxSubjects("hands") : OnHandsResults(r)
    \/ \E m \in Modules : SendThrows(m)
    \/ \E d \in ClockSteps : ClockAdvance(d)
    \/ VideoReady

Spec == Init /\ [][Next]_vars

(* ------------------------- operator controls --------------------------- *)
\* The page's module buttons flip showPose / showFace / showHands.
ToggleShow(m) ==
    /\ initPc = "running"
    /\ show' = [show EXCEPT ![m] = ~@]
    /\ UNCHANGED <<initPc, setup, errorModal, detector, landmarks, status,
                   videoElement, readyState, canvas, isTracking, now,
                   lastFrameTime, frameCount, fps, lastFpsTime, tickPc,
                   lastTick, dispatchFailures, tickLog, inflight,
                   delaysElapsed, input, output,
                outstanding>>

UINext ==
    \/ Next
    \/ \E m \in Modules : ToggleShow(m)

UISpec == Init /\ [][UINext]_vars

\* Teardown clears the tracking flag.
StopTracking ==
    /\ isTracking
    /\ isTracking' = FALSE
    /\ UNCHANGED <<initPc, setup, errorModal, detector, show, landmarks,
                   status, videoElement, readyState, canvas, now,
                   lastFrameTime, frameCount, fps, lastFpsTime, tickPc,
                   lastTick, dispatchFailures, tickLog, inflight,
                   delaysElapsed, input, output,
                outstanding>>

StopNext ==
    \/ Next
    \/ StopTracking

\* A send in flight settles: its callback runs and it resolves, or it rejects.
Settles ==
    \/ \E r \in 0..MaxSubjects("pose") : OnPoseResults(r)
    \/ \E r \in 0..MaxSubjects("face") : OnFaceResults(r)
    \/ \E r \in 0..MaxSubjects("hands") : OnHandsResults(r)
    \/ \E m \in Modules : SendThrows(m)

\* The repaint signal always comes, and the detectors settle every send.
StopSpec ==
    /\ Init
    /\ [][StopNext]_vars
    /\ WF_vars(\E rt \in BOOLEAN : Tick(rt))
    /\ WF_vars(Settles)

(* --------------------- scheduler on a fresh tracker -------------------- *)
\* startOptimizedTracking() called on a freshly constructed tracker, with
\* the first MaxLog runs of processFrame recorded.
SchedStart(renderThrows) ==
    /\ initPc = "start"
    /\ ~isTracking
    /\ isTracking' = TRUE
    /\ ProcessFrame(TRUE, renderThrows)
    /\ tickLog' = <<<<now, lastTick' # "skipped">>>>
    /\ outstanding' = OutstandingAfter(outstanding + 1, tickPc')
    /\ UNCHANGED initPc

SchedTick(renderThrows) ==
    /\ tickPc = "scheduled"
    /\ Len(tickLog) < MaxLog
    /\ ProcessFrame(isTracking, renderThrows)
    /\ tickLog' = Append(tickLog, <<now, lastTick' # "skipped">>)
    /\ outstanding' = OutstandingAfter(outstanding, tickPc')
    /\ UNCHANGED <<initPc, isTracking>>

SchedNext ==
    \/ \E rt \in BOOLEAN : SchedStart(rt)
    \/ \E rt \in BOOLEAN : SchedTick(rt)
    \/ \E d \in ClockSteps : ClockAdvance(d)

SchedSpec == Init /\ [][SchedNext]_vars

(* ------------------------ drawPoseLandmarks ---------------------------- *)
\* Visibilities, in tenths: below, at and above the threshold.
Visibilities == {2, 3, 4}
\* Lengths of the poseLandmarks array: empty, cut short, complete.
PoseLengths == {0, 20, maxPoseIndex + 1}

\* The connections array of drawPoseLandmarks.
PoseConnections ==
    { <<11, 12>>, <<11, 13>>, <<13, 15>>, <<12, 14>>, <<14, 16>>,
      <<11, 23>>, <<12, 24>>, <<23, 24>>,
      <<23, 25>>, <<25, 27>>, <<27, 29>>, <<29, 31>>,
      <<24, 26>>, <<26, 28>>, <<28, 30>>, <<30, 32>>,
      <<15, 17>>, <<15, 19>>, <<15, 21>>,
      <<16, 18>>, <<16, 20>>, <<16, 22>> }

\* poseLandmarks[i] is defined (indices start at 0).
Defined(pose, i) == i + 1 <= Len(pose)

\* Variant of Visible: the threshold is inclusive.
VisibleInclusive(pose, i) ==
    Defined(pose, i) /\ pose[i + 1] >= visibilityThreshold

\* point && point.visibility > 0.3
Visible(pose, i) == Defined(pose, i) /\ pose[i + 1] > visibilityThreshold

\* The segments stroked and the dots filled by drawPoseLandmarks.
PoseStrokes(pose) ==
    {c \in PoseConnections : Visible(pose, c[1]) /\ Visible(pose, c[2])}

PoseDots(pose) == {i \in 0..maxPoseIndex : Visible(pose, i)}

TrackerUnchanged ==
    UNCHANGED <<initPc, setup, errorModal, detector, show, landmarks, status,
                videoElement, readyState, canvas, isTracking, now,
                lastFrameTime, frameCount, fps, lastFpsTime, tickPc, lastTick,
                dispatchFailures, tickLog, inflight, delaysElapsed,
                outstanding>>

\* A pose whose landmarks have visibility base, but for landmarks a and b.
PoseOf(len, base, a, va, b, vb) ==
    [i \in 1..len |-> IF i = a + 1 THEN va ELSE IF i = b + 1 THEN vb ELSE base]

DrawInit ==
    /\ Fresh(0)
    /\ initPc = "start"
    /\ \E len \in PoseLengths, base \in Visibilities,
          a \in 0..maxPoseIndex, b \in 0..maxPoseIndex,
          va \in Visibilities, vb \in Visibilities :
           input = [pose |-> PoseOf(len, base, a, va, b, vb)]
    /\ output = <<>>

\* drawPoseLandmarks() with this.poseLandmarks = input.pose and showPose set.
DrawPoseLandmarks ==
    /\ output = <<>>
    /\ show["pose"]
    /\ output' = [strokes |-> PoseStrokes(input.pose),
                  dots |-> PoseDots(input.pose)]
    /\ UNCHANGED input
    /\ TrackerUnchanged

DrawNext == DrawPoseLandmarks

DrawSpec == DrawInit /\ [][DrawNext]_vars

(* ------------------------------ flipX ---------------------------------- *)
\* Numbers are counted in quanta of 2^-FracBits and carry MantissaBits
\* significant bits, rounded to nearest, ties to even, as the arithmetic of
\* JavaScript numbers does with 53 bits.
RECURSIVE Pow2(_)
Pow2(k) == IF k = 0 THEN 1 ELSE 2 * Pow2(k - 1)

Unit == Pow2(FracBits)

\* The spacing of the representable numbers around n / d (n, d in quanta).
RECURSIVE QuantumFrom(_, _, _)
QuantumFrom(n, d, q) ==
    IF n < q * Pow2(MantissaBits) * d THEN q ELSE QuantumFrom(n, d, 2 * q)

Quantum(n, d) == QuantumFrom(n, d, 1)

\* n / d rounded to the nearest representable number.
Fl(n, d) ==
    LET q    == Quantum(n, d)
        t    == n \div (d * q)
        rest == 2 * (n - t * d * q)
    IN  IF rest < d * q THEN t * q
        ELSE IF rest > d * q THEN (t + 1) * q
        ELSE IF t % 2 = 0 THEN t * q ELSE (t + 1) * q

\* x * width, as computed at the call sites of flipX.
Times(x, width) == Fl(x * width, Unit)

\* Variant of flipX: the coordinate is shifted instead of mirrored.
flipXShifted(x, width) == Fl(width + x, 1)

\* flipX(x, width): width - x
flipX(x, width) == Fl(width - x, 1)

\* Canvas widths (whole pixels, exactly representable) and normalized
\* coordinates in [0, 1], in quanta.
CanvasWidths == {w * Unit : w \in {v \in 1..MaxWidth : Fl(v * Unit, 1) = v * Unit}}
Normalized == {x \in 0..Unit : Fl(x, 1) = x}

FlipInit ==
    /\ Fresh(0)
    /\ initPc = "start"
    /\ \E x \in Normalized, w \in CanvasWidths : input = [x |-> x, width |-> w]
    /\ output = <<>>

\* The mirrored position of the landmark: flipX(x * width, width).
MirrorOnce ==
    /\ output = <<>>
    /\ output' = <<flipX(Times(input.x, input.width), input.width)>>
    /\ UNCHANGED input
    /\ TrackerUnchanged

\* flipX applied to the mirrored position.
MirrorTwice ==
    /\ Len(output) = 1
    /\ output' = Append(output, flipX(output[1], input.width))
    /\ UNCHANGED input
    /\ TrackerUnchanged

FlipNext ==
    \/ MirrorOnce
    \/ MirrorTwice

FlipSpec == FlipInit /\ [][FlipNext]_vars

TypeOK ==
    /\ initPc \in {"start", "setupPose", "faceDelay", "setupFaceMesh",
                   "handsDelay", "setupHands", "startCamera", "startTracking",
                   "running", "failed"}
    /\ setup \in [Modules -> {"pending", "ok", "failed"}]
    /\ errorModal \in {"none", "canvas", "pose", "camera"}
    /\ detector \in [Modules -> BOOLEAN]
    /\ show \in [Modules -> BOOLEAN]
    /\ \A m \in Modules : landmarks[m] \in 0..MaxSubjects(m)
    /\ status \in [StatusTypes ->
                     {"none", "active", "error", "detected", "searching"}]
    /\ videoElement \in BOOLEAN
    /\ readyState \in 0..HAVE_CURRENT_DATA
    /\ Len(canvas) <= 4
    /\ isTracking \in BOOLEAN
    /\ now \in 0..MaxNow
    /\ lastFrameTime \in 0..MaxNow
    /\ frameCount \in Nat
    /\ tickPc \in {"none", "scheduled"} \cup Modules
    /\ \A m \in Modules : dispatchFailures[m] \in 0..maxRetries
    /\ Len(tickLog) <= MaxLog
    /\ \A m \in Modules : inflight[m] \in 0..1
    /\ delaysElapsed \in 0..2
    /\ outstanding \in 0..1

(* ============================== claims ================================= *)
\* A module's status agrees with a landmark count.
Agrees(s, count) ==
    IF count > 0 THEN s \in {"detected", "active"} ELSE s = "searching"

\* The step is the completion of module m's awaited send (its results
\* callback ran and processFrame resumed).
CompletionStep(m) ==
    tickPc = m /\ tickPc' # m /\ lastTick' = "rendered"

\* C1: in every reachable state, no module has status 'detected' while its
\* cached result is absent, and none has a present result while its status
\* says 'searching'.
C1_StatusAndResultChangeTogether ==
    \A m \in Modules :
        /\ status[m] = "detected" => landmarks[m] > 0
        /\ landmarks[m] > 0 => status[m] # "searching"

\* C2: when the setup of a detector has failed, initialization still goes
\* on: once init() has ended every setup has been run, and init() has not
\* ended in failure unless the camera could not be started.
C2_SetupFailureDoesNotAbortInit ==
    (initPc \in {"running", "failed"} /\ \E m \in Modules : setup[m] = "failed")
        => /\ \A k \in Modules : setup[k] # "pending"
           /\ initPc = "failed" => errorModal = "camera"

\* C3: a module whose setup failed is disabled, shows status 'error' and is
\* never the module whose send a tick awaits.
C3_FailedModuleDisabledAndNeverDispatched ==
    \A m \in Modules :
        setup[m] = "failed" =>
            /\ show[m] = FALSE
            /\ status[m] = "error"
            /\ tickPc # m

\* C4: once the loop runs, the status of a module whose setup failed is
\* 'error' (no completion replaces it), and the status of any other module
\* agrees with its cached result whenever a tick has run to its end.
C4_StatusDerivation ==
    initPc = "running" =>
        \A m \in Modules :
            IF setup[m] = "failed" THEN status[m] = "error"
            ELSE lastTick = "rendered" /\ tickPc = "scheduled"
                     => Agrees(status[m], landmarks[m])

\* C5: right after the completion of module m's send, the published status
\* of m agrees with the result that completion carried.
C5_StatusRecomputedOnEveryCompletion ==
    [][\A m \in Modules :
          CompletionStep(m) => Agrees(status'[m], landmarks'[m])]_vars

\* C6: a module's status turns to 'error' only in the step in which that
\* module's setup fails; no completion, with or without a result, does it.
C6_ErrorOnlyBySetupFailure ==
    [][\A m \in Modules :
          (status'[m] = "error" /\ status[m] # "error")
              => (setup[m] = "pending" /\ setup'[m] = "failed")]_vars

\* C6 witness: completions with and without a result have been delivered
\* to a tracker one of whose detectors failed to set up.
C6_Witness ==
    /\ setup["hands"] = "failed"
    /\ status["pose"] = "searching"
    /\ status["face"] = "detected"

\* A run of processFrame starts in this step: the scheduled tick runs, or
\* startOptimizedTracking makes the first call. The clock and the video do
\* not move in such a step.
TickRuns ==
    /\ now' = now
    /\ readyState' = readyState
    /\ \/ tickPc = "scheduled" /\ isTracking
       \/ initPc = "startTracking" /\ initPc' = "running"

\* C7: a tick that finds less than 1000/targetFps ms elapsed since the last
\* accepted tick changes neither lastFrameTime, the frame counter, the
\* canvas nor any module state and requests the next tick; and two
\* consecutively accepted ticks are at least 1000/targetFps ms apart.
C7_SkippedTickHasNoEffect ==
    [][/\ (TickRuns /\ targetFps * (now - lastFrameTime) < 1000)
          => /\ tickPc' = "scheduled"
             /\ UNCHANGED <<lastFrameTime, frameCount, fps, lastFpsTime,
                            canvas, landmarks, status, detector, show,
                            dispatchFailures>>
       /\ lastFrameTime' # lastFrameTime
          => targetFps * (lastFrameTime' - lastFrameTime) >= 1000]_vars

\* C7 witness: a tick was skipped after two ticks had been accepted.
C7_Witness ==
    /\ lastTick = "skipped"
    /\ frameCount >= 2
    /\ lastFrameTime > 0

\* C8: on a fresh tracker whose ticks read the clock at 0, 10, 20 and 40,
\* exactly the ticks at 0 and 40 are accepted.
C8_TicksAt0And40Accepted ==
    (Len(tickLog) = 4 /\ [i \in 1..4 |-> tickLog[i][1]] = <<0, 10, 20, 40>>)
        => [i \in 1..4 |-> tickLog[i][2]] = <<TRUE, FALSE, FALSE, TRUE>>

\* C9: while the tracking flag is set the loop never dies: a tick is always
\* either scheduled or suspended in a send, and every run of processFrame
\* that ended (skipped, not ready, render or send error) has requested the
\* next tick.
C9_LoopSurvivesErrors ==
    isTracking =>
        /\ tickPc # "none"
        /\ lastTick # "rendered" => tickPc = "scheduled"

\* C9 witness: a later tick rendered after a send had thrown.
C9_Witness ==
    /\ \E m \in Modules : dispatchFailures[m] > 0
    /\ lastTick = "rendered"
    /\ tickPc \in Modules

\* C10: a module whose send has thrown maxRetries times in a row is
\* disabled and is no longer dispatched.
C10_AutoDisableAfterRetries ==
    \A m \in Modules :
        dispatchFailures[m] >= maxRetries => (show[m] = FALSE /\ tickPc # m)

\* The step is the rejection of the send that processFrame awaits from m.
ThrowStep(m) == tickPc = m /\ lastTick' = "sendError"

\* C11: when the send to one module throws during a tick, the enabled
\* modules after it are still sent the frame in that tick.
C11_DispatchFailureContained ==
    [][\A m \in Modules :
          (/\ ThrowStep(m)
           /\ \E k \in Modules :
                  Position(k) > Position(m) /\ detector[k] /\ show[k])
              => tickPc' \in Modules]_vars

\* C12: no detector ever has two sends in flight.
C12_NoOverlappingSends == \A m \in Modules : inflight[m] <= 1

\* C12 witness: pose is sent a second frame, after its first send settled.
C12_Witness ==
    /\ inflight["pose"] = 1
    /\ tickPc = "pose"
    /\ frameCount >= 2

\* C13: the loop requests its next tick without waiting for the detectors,
\* so while a send is in flight the next tick is scheduled.
C13_NextTickNotBlockedOnDetector ==
    \A m \in Modules : inflight[m] > 0 => tickPc = "scheduled"

\* C14: an accepted tick that finds readyState below 2 neither renders nor
\* dispatches, and requests the next tick.
C14_NotReadyTickDoesNothing ==
    [][(/\ TickRuns
        /\ targetFps * (now - lastFrameTime) >= 1000
        /\ readyState < 2)
          => /\ tickPc' = "scheduled"
             /\ UNCHANGED <<canvas, frameCount, fps, lastFpsTime, inflight,
                            landmarks, status>>]_vars

\* C14 witness: a tick was accepted while the video was not ready.
C14_Witness ==
    /\ lastTick = "notReady"
    /\ lastFrameTime = now
    /\ readyState < 2

\* C15: while a module's show flag is off nothing is drawn for it: its draw
\* routine, called in the current state, leaves the canvas alone, and no
\* step (a completion arriving for it included) adds its layer.
C15_DisabledModuleNeverDrawn ==
    [][\A m \in Modules :
          ~show[m] =>
              /\ drawLandmarks(canvas, m, landmarks) = canvas
              /\ canvas' # Append(canvas, m)]_vars

\* C15 witness: the face send of this tick has completed with a face while
\* the face module was switched off, and the canvas has no face layer.
C15_Witness ==
    /\ ~show["face"]
    /\ detector["face"]
    /\ landmarks["face"] > 0
    /\ tickPc = "hands"
    /\ \A i \in 1..Len(canvas) : canvas[i] # "face"

\* C16: the setups run one at a time in the order pose, face, hands: a setup
\* is entered only when the one before it has ended, and a delay has
\* expired before the face setup and another before the hands setup.
C16_SequentialSetup ==
    /\ initPc \in {"faceDelay", "setupFaceMesh"}
           => setup = [pose |-> "ok", face |-> "pending", hands |-> "pending"]
    /\ initPc \in {"handsDelay", "setupHands"}
           => setup["face"] # "pending" /\ setup["hands"] = "pending"
    /\ setup["face"] # "pending"
           => setup["pose"] = "ok" /\ delaysElapsed >= 1
    /\ setup["hands"] # "pending"
           => setup["face"] # "pending" /\ delaysElapsed >= 2

\* C16 witness: all three setups have run, the face setup having failed.
C16_Witness ==
    /\ setup["face"] = "failed"
    /\ setup["hands"] = "ok"
    /\ initPc = "startCamera"

\* C17: the completion of one module changes neither the cached result nor
\* the status of another module.
C17_SingleWriter ==
    [][\A m \in Modules, k \in Modules :
          (CompletionStep(m) /\ k # m)
              => status'[k] = status[k] /\ landmarks'[k] = landmarks[k]]_vars

\* The tracking flag has been cleared after the loop was started.
Stopped == initPc = "running" /\ ~isTracking

\* C18 (as claimed): once the flag is cleared nothing is rendered and no
\* frame is sent to any detector.
C18_NoDispatchAfterStop ==
    [][Stopped =>
          /\ lastFrameTime' = lastFrameTime
          /\ frameCount' = frameCount
          /\ \A m \in Modules : inflight'[m] <= inflight[m]]_vars

\* C18 (amended): once the flag is cleared no tick is accepted or renders,
\* sends are issued only by the processFrame that was suspended in a send,
\* a stopped loop is not rescheduled, and eventually no tick is scheduled.
C18_LoopStops ==
    /\ [][Stopped =>
             /\ lastFrameTime' = lastFrameTime
             /\ frameCount' = frameCount
             /\ tickPc \notin Modules
                    => \A m \in Modules : inflight'[m] <= inflight[m]
             /\ tickPc = "none" => tickPc' = "none"]_vars
    /\ (Stopped ~> tickPc = "none")

\* C18 witness: the flag was cleared while processFrame was suspended in
\* the pose send, and another send was issued when it resumed.
C18_Witness ==
    /\ Stopped
    /\ tickPc \in {"face", "hands"}
    /\ lastFrameTime = now
    /\ dispatchFailures["pose"] = 0

\* C19: a pose connection (a, b) is stroked iff both landmarks exist and
\* both visibilities are strictly above 0.3, and a dot is filled at a
\* landmark iff its visibility is strictly above 0.3.
C19_ExclusiveVisibilityThreshold ==
    output # <<>> =>
        LET pose == input.pose
            Above(i) == i < Len(pose) /\ pose[i + 1] > 3
        IN  /\ \A c \in PoseConnections :
                   c \in output.strokes <=> (Above(c[1]) /\ Above(c[2]))
            /\ \A i \in 0..32 : i \in output.dots <=> Above(i)

\* C19 witness: a connection with one end exactly at 0.3 and the other
\* above it was left out, while some other connection was stroked.
C19_Witness ==
    /\ output # <<>>
    /\ output.strokes # {}
    /\ \E c \in PoseConnections :
           /\ c \notin output.strokes
           /\ Len(input.pose) > c[2]
           /\ input.pose[c[1] + 1] = 3
           /\ input.pose[c[2] + 1] = 4

AbsDiff(a, b) == IF a < b THEN b - a ELSE a - b

\* C20 (as claimed): the mirrored position of x is W - x*W, and mirroring
\* it again gives x*W back.
C20_MirrorIsSelfInverse ==
    Len(output) = 2 =>
        LET p == Times(input.x, input.width)
        IN  /\ output[1] + p = input.width
            /\ output[2] = p

\* C20 (amended): the mirrored position is W - x*W rounded to the nearest
\* representable number, and mirroring it again gives W minus that number;
\* both are exact when x*W is at least W/2, and otherwise the second one
\* is off x*W by at most half the spacing of the numbers around W.
C20_MirrorIsSelfInverseUpToRounding ==
    Len(output) = 2 =>
        LET p == Times(input.x, input.width)
            w == input.width
        IN  /\ 2 * AbsDiff(output[1] + p, w) <= Quantum(w, 1)
            /\ output[1] + output[2] = w
            /\ 2 * AbsDiff(output[2], p) <= Quantum(w, 1)
            /\ 2 * p >= w => (output[1] + p = w /\ output[2] = p)

\* C20 witness: a position below W/2 whose mirror image had to be rounded.
C20_Witness ==
    /\ Len(output) = 2
    /\ 2 * Times(input.x, input.width) < input.width
    /\ output[2] # Times(input.x, input.width)

\* The step ends a tick that was accepted, found the video ready and
\* rendered it: processFrame requests the next tick.
ReadyTickEnds ==
    /\ tickPc' = "scheduled"
    /\ lastTick' \in {"rendered", "sendError"}
    /\ tickPc \in Modules \/ TickRuns

\* The canvas cv is the video frame with exactly one overlay for each
\* enabled module that has a cached result.
Composite(cv, sh, lm) ==
    /\ cv # <<>>
    /\ cv[1] = "video"
    /\ \A m \in Modules :
           (sh[m] /\ lm[m] > 0) <=> (\E i \in 1..Len(cv) : cv[i] = m)
    /\ \A i \in 1..Len(cv), j \in 1..Len(cv) : cv[i] = cv[j] => i = j

\* C21: when an accepted, ready tick ends, the canvas is the composite of
\* its video frame and the overlays of all enabled modules with a cached
\* result, also when a send of that tick threw.
C21_TickEndsWithComposite ==
    [][ReadyTickEnds => Composite(canvas', show', landmarks')]_vars

\* C22: the completion of a module whose show flag was cleared after its
\* frame was sent draws nothing and changes neither that module's cached
\* result nor any status.
C22_LateCompletionIgnored ==
    [][\A m \in Modules :
          (CompletionStep(m) /\ ~show[m])
              => /\ canvas' = canvas
                 /\ landmarks'[m] = landmarks[m]
                 /\ status' = status]_vars

\* C23: every accepted tick stores its timestamp and counts one frame,
\* ready or not; the tick that finds a second elapsed since the last
\* publication publishes the count and resets it to 0.
C23_EveryAcceptedTickCounted ==
    [][(TickRuns /\ targetFps * (now - lastFrameTime) >= 1000)
          => /\ lastFrameTime' = now
             /\ IF now - lastFpsTime >= 1000
                THEN fps' = frameCount + 1 /\ frameCount' = 0
                ELSE frameCount' = frameCount + 1 /\ fps' = fps]_vars

\* init() is past the canvas lookup and the canvas was missing (the video
\* element is created right after a successful lookup).
CanvasMissing == initPc # "start" /\ ~videoElement

\* The three setups have returned and startCamera has failed (its catch
\* block sets the camera status).
CameraFailed ==
    /\ \A m \in Modules : setup[m] # "pending"
    /\ status["camera"] = "error"

\* C24: after a missing canvas or a failed camera start, init() has ended
\* with the error modal shown, the loop is never started (nothing is ever
\* rendered or sent) and the failed step is not run again; after a missing
\* canvas no detector has been set up.
C24_CaptureAndCanvasFailuresFatal ==
    [][/\ CanvasMissing => errorModal = "canvas"
       /\ CameraFailed => errorModal = "camera"
       /\ (CanvasMissing \/ CameraFailed)
              => /\ initPc = "failed" /\ initPc' = "failed"
                 /\ ~isTracking /\ ~isTracking'
                 /\ tickPc' = "none"
                 /\ canvas' = <<>>
                 /\ lastFrameTime' = 0
                 /\ \A m \in Modules : inflight'[m] = 0
                 /\ UNCHANGED <<setup, detector, status, errorModal>>
       /\ CanvasMissing
              => \A m \in Modules : setup[m] = "pending" /\ ~detector[m]]_vars

\* C24 witness: the camera start failed after three successful setups, and
\* time has passed since.
C24_Witness ==
    /\ errorModal = "camera"
    /\ \A m \in Modules : detector[m]
    /\ now >= 100

\* Place of a layer in the drawing order.
Rank(l) ==
    CASE l = "video" -> 0 [] l = "pose" -> 1 [] l = "face" -> 2
      [] l = "hands" -> 3

\* C25: a send is issued either by the tick's first run, right after the
\* video was rendered, or when the awaited send of a module earlier in the
\* order pose, face, hands has settled, and then no other send is in
\* flight; the layers on the canvas are in the order video, pose, face,
\* hands.
C25_RenderThenOrderedDispatch ==
    [][/\ \A m \in Modules :
              inflight'[m] > inflight[m]
                  => /\ tickPc' = m
                     /\ \A k \in Modules \ {m} : inflight'[k] = 0
                     /\ \/ tickPc \in Modules /\ Rank(tickPc) < Rank(m)
                        \/ TickRuns /\ canvas' = <<"video">>
       /\ \A i \in 1..Len(canvas'), j \in 1..Len(canvas') :
              i < j => Rank(canvas'[i]) < Rank(canvas'[j])]_vars

\* C25 witness: a tick without errors has drawn all four layers.
C25_Witness ==
    /\ canvas = <<"video", "pose", "face", "hands">>
    /\ tickPc = "scheduled"

\* C26: never more than one run of processFrame is requested or under way,
\* and once the loop is started their number does not grow.
C26_AtMostOneOutstandingTick ==
    [][/\ outstanding' <= 1
       /\ initPc = "running" => outstanding' <= outstanding]_vars

\* C26 witness: the single outstanding run is suspended in a send, in a
\* tick after the first.
C26_Witness ==
    /\ outstanding = 1
    /\ tickPc \in Modules
    /\ lastFrameTime > 50
    /\ lastTick = "rendered"

====
